---- MODULE Spec2Model ----
(***************************************************************************)
(* Batch import-and-publish pipeline of geoserver_postgresql_manager-v2.1: *)
(* ImprovedBatchProcessor.process_data_items with the two gateways it      *)
(* drives (ImprovedPostgreSQLManager, ImprovedGeoServerPublisher) and the  *)
(* WorkerThread that runs it.                                              *)
(*                                                                         *)
(* Spec   : one run of process_data_items, step by step, over every        *)
(*          bounded item list, callback choice and gateway outcome.        *)
(* SpecGS : the Publishing Gateway's create operations called directly,    *)
(*          several times, against every sequence of server answers.       *)
(***************************************************************************)
EXTENDS Integers, Sequences, FiniteSets, TLC

\* ------------------------------------------------------------------ bounds
MaxItems == 3
MaxCalls == 3

\* --------------------------------------------------------------- constants
\* item['type'] values: "矢量数据", "栅格数据", "空间表", and anything else
VECTOR == "VECTOR"
RASTER == "RASTER"
EXISTING_SPATIAL_TABLE == "EXISTING_SPATIAL_TABLE"
UNKNOWN_TYPE == "UNKNOWN_TYPE"
ItemTypes == {VECTOR, RASTER, EXISTING_SPATIAL_TABLE, UNKNOWN_TYPE}

\* A data item is a dict; has_new_name says whether it has the key
\* 'new_name' (every item['new_name'] raises KeyError without it).
DataItems == [type : ItemTypes, has_new_name : BOOLEAN]

\* keys of the connection parameter dict
AllParamKeys == {"host", "port", "database", "user", "password"}
ParamChoices == {AllParamKeys, AllParamKeys \ {"password"}, AllParamKeys \ {"host"}}

\* What one HTTP request of the requests session yields: a response with a
\* status code, or a transport exception (timeout, refused connection).
HttpStatus == {200, 201, 409, 500}
Responses == {[exc |-> FALSE, status_code |-> s] : s \in HttpStatus}
             \cup {[exc |-> TRUE, status_code |-> 0]}
NoResponse == [exc |-> FALSE, status_code |-> 0]

\* workspace names used when the gateway is called directly
WorkspaceNames == {"ws_a", "ws_b"}

VARIABLES
    data_items,         \* the list handed to process_data_items
    progress_callback,  \* TRUE iff a progress callback was passed
    status_callback,    \* TRUE iff a status callback was passed
    params,             \* keys present in pg_manager.params
    pc,                 \* position inside process_data_items / WorkerThread.run
    i,                  \* 1-based index of the item being processed
    success_count,
    error_count,
    resp,               \* last response seen by the publisher's session
    result,             \* the pair returned by process_data_items
    finished,           \* arguments of WorkerThread.finished.emit
    calls,              \* trace of gateway calls and callback invocations
    error_log,          \* failure records written by the item loop
    status_line,        \* <<S, F>> of the final status line, <<>> if none
    gs_log,             \* SpecGS: direct gateway calls with their answers
    tables,             \* SpecDB: names of the tables in the database
    indexes,            \* SpecDB: tables that carry a spatial index
    tx,                 \* SpecDB: transaction status of self.connection
    db_log,             \* SpecDB: the two most recent gateway calls
    name_log,           \* SpecNorm: an input and its successive normalisations
    scanned_data,       \* SpecScan: new_name of every row of the data table
    workers             \* SpecGUI: WorkerThreads started and not yet finished

vars == <<data_items, progress_callback, status_callback, params, pc, i,
          success_count, error_count, resp, result, finished, calls,
          error_log, status_line, gs_log, tables, indexes, tx, db_log,
          name_log, scanned_data, workers>>

\* the state outside process_data_items and the publishing gateway
ext == <<tables, indexes, tx, db_log, name_log, scanned_data, workers>>

inputs == <<data_items, progress_callback, status_callback, params>>

\* ----------------------------------------------------------------- helpers
RECURSIVE SeqsUpTo(_, _)
SeqsUpTo(S, n) ==
    IF n = 0 THEN {<<>>}
    ELSE LET shorter == SeqsUpTo(S, n - 1)
         IN  shorter \cup {Append(q, x) : q \in {r \in shorter : Len(r) = n - 1}, x \in S}

Ev(op, item, val, res) == [op |-> op, item |-> item, val |-> val, res |-> res]

NoResult == [ok |-> FALSE, msg |-> "none", detail |-> "none", nums |-> <<>>]
Ret(ok, msg, detail, nums) == [ok |-> ok, msg |-> msg, detail |-> detail, nums |-> nums]

total_items == Len(data_items)

\* int((i / total_items) * 100), line 950, for the 0-based index idx and
\* 0 <= idx < total < 2048, computed as the interpreter computes it in
\* IEEE 754 double precision with round-half-to-even.  Numbers of up to
\* 60 bits are three digits of 20 bits (B = 2^20).
\*   i / total_items:  idx / total = f * 2^-(z+1) with 1 <= f < 2;
\*     a1 a2 a3 are the 54 leading bits of f (the last is the rounding
\*     bit, the remainder of the division the sticky bit), x1 x2 x3 the
\*     rounded 53-bit significand.
\*   ... * 100:  p1 p2 p3 is the exact product, of 59 or 60 bits, rounded
\*     to its 53 leading bits y1 y2 y3 by dropping t bits.
\*   int(...):  the product is y * 2^(t-z-53); its integer part is what
\*     is left of y1 after dropping z + 13 - t more bits.
ProgressValue(idx, total) ==
    LET B == 1048576
        z == CHOOSE e \in 0..11 : idx * 2^e < total /\ idx * 2^(e + 1) >= total
        n1 == idx * 2^z * 16384
        a1 == n1 \div total
        n2 == (n1 % total) * B
        a2 == n2 \div total
        n3 == (n2 % total) * B
        a3 == n3 \div total
        m1 == a1 \div 2
        m2 == (a1 % 2) * 524288 + a2 \div 2
        m3 == (a2 % 2) * 524288 + a3 \div 2
        up == IF a3 % 2 = 1 /\ (n3 % total # 0 \/ m3 % 2 = 1) THEN 1 ELSE 0
        x3 == m3 + up
        x2 == m2 + x3 \div B
        x1 == m1 + x2 \div B
        p3 == 100 * (x3 % B)
        p2 == 100 * (x2 % B) + p3 \div B
        p1 == 100 * x1 + p2 \div B
        t == IF p1 >= 524288 THEN 7 ELSE 6
        q1 == p1 \div 2^t
        q2 == (p1 % 2^t) * 2^(20 - t) + (p2 % B) \div 2^t
        q3 == ((p2 % B) % 2^t) * 2^(20 - t) + (p3 % B) \div 2^t
        low == (p3 % B) % 2^t
        up2 == IF low > 2^(t - 1) \/ (low = 2^(t - 1) /\ q3 % 2 = 1) THEN 1 ELSE 0
        y3 == q3 + up2
        y2 == q2 + y3 \div B
        y1 == q1 + y2 \div B
    IN IF idx = 0 THEN 0 ELSE y1 \div 2^(z + 13 - t)

\* ------------------------------------------------------- Database Gateway
\* ImprovedPostgreSQLManager.connect: outcome of psycopg2.connect and of
\* the PostGIS extension query; everything is caught inside connect.
ConnectOutcomes == {"ok", "no_postgis", "error"}

\* variant: the answer of the extension query is not looked at
connect_IgnoresPostgis(p, outcome) ==
    IF ~({"host", "port"} \subseteq p) THEN [success |-> FALSE, message |-> "error"]
    ELSE IF outcome = "error" THEN [success |-> FALSE, message |-> "error"]
    ELSE [success |-> TRUE, message |-> "ok"]

connect(p, outcome) ==
    IF ~({"host", "port"} \subseteq p) THEN [success |-> FALSE, message |-> "error"]
    ELSE IF outcome = "error" THEN [success |-> FALSE, message |-> "error"]
    ELSE IF outcome = "no_postgis" THEN [success |-> FALSE, message |-> "no_postgis"]
    ELSE [success |-> TRUE, message |-> "ok"]

\* variant: raster import implemented and succeeding
import_raster_file_Implemented == TRUE

\* import_raster_file: always (False, "not implemented")
import_raster_file == FALSE

\* ------------------------------------------------ Database Gateway: SQL
\* A table name is a sequence of one-character strings.
MaxRenameLen == 2
RenameChars == {"a", "1"}
TableNames == {<<"a">>, <<"a", "1">>}
\* the names a table is renamed to: short names, one of them with a
\* character no identifier may hold
RenameInputs == SeqsUpTo(RenameChars, MaxRenameLen) \cup {<<"a", "-">>}

\* re.match(r'^[a-zA-Z][a-zA-Z0-9_]*$', new_name), line 2166
Letters == {"a", "b", "d", "e", "m", "n", "u", "B"}
Digits == {"1"}
ValidTableName(name) ==
    /\ Len(name) >= 1
    /\ name[1] \in Letters
    /\ \A k \in 2..Len(name) : name[k] \in Letters \cup Digits \cup {"_"}

\* The database as one gateway object sees it: the tables, the spatial
\* indexes (name is the table the index was named after, on is the table
\* that carries it) and the transaction status of self.connection, which
\* runs with autocommit off: "idle" outside a transaction, "open" inside
\* one, "aborted" after a statement failed and before the rollback.
Database(tbls, idx, status) == [tables |-> tbls, indexes |-> idx, tx |-> status]

\* cursor.execute: the statement runs unless the transaction is aborted
\* or the statement itself fails (stmt_ok is the server's part).
Executes(d, stmt_ok) == d.tx # "aborted" /\ stmt_ok

\* lines 364-381: a SELECT, no commit; the handler does not roll back
check_table_exists(d, table_name, stmt_ok) ==
    IF Executes(d, stmt_ok)
    THEN [db |-> [d EXCEPT !.tx = "open"], ret |-> table_name \in d.tables, sql |-> 1]
    ELSE [db |-> [d EXCEPT !.tx = "aborted"], ret |-> FALSE, sql |-> 1]

\* variant: DROP TABLE without IF EXISTS
drop_table_if_exists_Strict(d, table_name, stmt_ok) ==
    IF Executes(d, stmt_ok) /\ table_name \in d.tables
    THEN [db |-> Database(d.tables \ {table_name},
                          {x \in d.indexes : x.on # table_name}, "idle"),
          ret |-> TRUE, sql |-> 1]
    ELSE [db |-> [d EXCEPT !.tx = "idle"], ret |-> FALSE, sql |-> 1]

\* lines 383-395: DROP TABLE IF EXISTS ... CASCADE, commit; rollback in
\* the handler
drop_table_if_exists(d, table_name, stmt_ok) ==
    IF Executes(d, stmt_ok)
    THEN [db |-> Database(d.tables \ {table_name},
                          {x \in d.indexes : x.on # table_name}, "idle"),
          ret |-> TRUE, sql |-> 1]
    ELSE [db |-> [d EXCEPT !.tx = "idle"], ret |-> FALSE, sql |-> 1]

\* lines 499-516: CREATE INDEX IF NOT EXISTS idx_<table>_geom, commit;
\* the server refuses the statement when the table is missing and skips
\* it when an index of that name exists
create_spatial_index(d, table_name, stmt_ok) ==
    IF Executes(d, stmt_ok) /\ table_name \in d.tables
    THEN [db |-> Database(d.tables,
                          IF \E x \in d.indexes : x.name = table_name
                          THEN d.indexes
                          ELSE d.indexes \cup {[name |-> table_name, on |-> table_name]},
                          "idle"),
          ret |-> TRUE, sql |-> 1]
    ELSE [db |-> [d EXCEPT !.tx = "idle"], ret |-> FALSE, sql |-> 1]

\* lines 518-536: ALTER TABLE ... RENAME TO, commit; the server refuses
\* the statement when the old table is missing or the new name is taken.
\* The method does not look at the new name.
rename_table(d, old_name, new_name, stmt_ok) ==
    IF /\ Executes(d, stmt_ok)
       /\ old_name \in d.tables
       /\ new_name \notin d.tables
       /\ Len(new_name) >= 1
    THEN [db |-> Database((d.tables \ {old_name}) \cup {new_name},
                          {IF x.on = old_name THEN [x EXCEPT !.on = new_name] ELSE x
                             : x \in d.indexes},
                          "idle"),
          ret |-> TRUE, sql |-> 1, msg |-> "renamed"]
    ELSE [db |-> [d EXCEPT !.tx = "idle"], ret |-> FALSE, sql |-> 1, msg |-> "exception"]

\* gdf.to_postgis(..., if_exists='replace') at lines 408-414: it works on
\* a connection of its own, made from engine_string, inside one
\* transaction; self.connection is not involved.  The table is dropped
\* with its indexes and written anew.
to_postgis(d, table_name) ==
    Database(d.tables \cup {table_name},
             {x \in d.indexes : x.on # table_name}, d.tx)

\* lines 397-424: what create_spatial_index returns is not looked at
import_geodataframe_to_postgis(d, table_name, write_ok, index_ok) ==
    IF ~write_ok
    THEN [db |-> d, ret |-> FALSE, sql |-> 0, msg |-> "exception"]
    ELSE LET c == create_spatial_index(to_postgis(d, table_name), table_name, index_ok)
         IN [db |-> c.db, ret |-> TRUE, sql |-> 1 + c.sql, msg |-> "imported"]

\* What gpd.read_file makes of the file: it raises, or it gives a frame of
\* some features whose crs is None or the CRS of the file.
MaxFeatures == 2
NoCrs == "None"
CrsCodes == {"EPSG:4326", "EPSG:3857"}
FileOutcomes ==
    {f \in [readable : BOOLEAN, features : 0..MaxFeatures, crs : CrsCodes \cup {NoCrs}] :
        ~f.readable => (f.features = 0 /\ f.crs = NoCrs)}

\* what a call wrote into the destination table: nothing
NotWritten == [rows |-> 0, crs |-> NoCrs, reprojected |-> FALSE]

to_target_crs_NoTag(gdf, target_crs) ==
    [rows |-> gdf.features,
     crs |-> IF gdf.crs = NoCrs THEN NoCrs ELSE target_crs,
     reprojected |-> (gdf.crs # NoCrs /\ gdf.crs # target_crs)]

\* lines 439-445: a frame without crs is tagged with target_crs by
\* set_crs, which leaves the coordinates alone; a frame whose crs reads
\* otherwise than target_crs is reprojected by to_crs; both keep every
\* row.  The frame is what to_postgis writes (rows, SRID of the column).
to_target_crs(gdf, target_crs) ==
    [rows |-> gdf.features,
     crs |-> target_crs,
     reprojected |-> (gdf.crs # NoCrs /\ gdf.crs # target_crs)]

\* lines 426-482 with overwrite=True, the only way the program calls it;
\* gdf.geometry.empty (line 436) is true of a frame without rows
import_vector_file(d, table_name, file, target_crs, check_ok, drop_ok, write_ok, index_ok) ==
    IF ~file.readable
    THEN [db |-> d, ret |-> FALSE, sql |-> 0, msg |-> "exception", written |-> NotWritten]
    ELSE IF file.features = 0
    THEN [db |-> d, ret |-> FALSE, sql |-> 0, msg |-> "no_geometry", written |-> NotWritten]
    ELSE LET gdf == to_target_crs(file, target_crs)
             c == check_table_exists(d, table_name, check_ok)
             dr == drop_table_if_exists(c.db, table_name, drop_ok)
             d1 == IF c.ret THEN dr.db ELSE c.db
             n1 == IF c.ret THEN c.sql + dr.sql ELSE c.sql
             g == import_geodataframe_to_postgis(d1, table_name, write_ok, index_ok)
         IN [db |-> g.db, ret |-> g.ret, sql |-> n1 + g.sql, msg |-> g.msg,
             written |-> IF write_ok THEN gdf ELSE NotWritten]

\* ----------------------------------------------------- Publishing Gateway
test_connection(response) ==
    IF response.exc THEN FALSE
    ELSE response.status_code = 200

\* variant: a 409 conflict reported as failure
create_workspace_ConflictFails(response) ==
    IF response.exc THEN FALSE
    ELSE response.status_code \in {200, 201}

create_workspace(response) ==
    IF response.exc THEN FALSE
    ELSE IF response.status_code \in {200, 201} THEN TRUE
    ELSE IF response.status_code = 409 THEN TRUE
    ELSE FALSE

\* variant: a 409 conflict reported as failure
create_postgresql_datastore_ConflictFails(response) ==
    IF response.exc THEN FALSE
    ELSE response.status_code \in {200, 201}

create_postgresql_datastore(response) ==
    IF response.exc THEN FALSE
    ELSE IF response.status_code \in {200, 201} THEN TRUE
    ELSE IF response.status_code = 409 THEN TRUE
    ELSE FALSE

\* building datastore_data reads these keys before the try block
DatastoreKeys == {"host", "port", "database", "user", "password"}

\* variant: a 409 conflict reported as success, as create_workspace does
publish_layer_from_table_ConflictOk(response) ==
    IF response.exc THEN FALSE
    ELSE response.status_code \in {200, 201, 409}

publish_layer_from_table(response) ==
    IF response.exc THEN FALSE
    ELSE response.status_code \in {200, 201}

\* upload_style (lines 761-812): POST of the style descriptor, then PUT of
\* the SLD body.  put_sent tells whether the PUT left the client.
\* variant: an existing style (409) ends the upload
upload_style_ConflictFails(response, sld_response) ==
    IF response.exc
    THEN [ret |-> FALSE, put_sent |-> FALSE, msg |-> "exception"]
    ELSE IF response.status_code \notin {200, 201}
    THEN [ret |-> FALSE, put_sent |-> FALSE, msg |-> "style_create_failed"]
    ELSE IF sld_response.exc
    THEN [ret |-> FALSE, put_sent |-> TRUE, msg |-> "exception"]
    ELSE IF sld_response.status_code \in {200, 201}
    THEN [ret |-> TRUE, put_sent |-> TRUE, msg |-> "uploaded"]
    ELSE [ret |-> FALSE, put_sent |-> TRUE, msg |-> "sld_upload_failed"]

upload_style(response, sld_response) ==
    IF response.exc
    THEN [ret |-> FALSE, put_sent |-> FALSE, msg |-> "exception"]
    ELSE IF response.status_code \notin {200, 201} /\ response.status_code # 409
    THEN [ret |-> FALSE, put_sent |-> FALSE, msg |-> "style_create_failed"]
    ELSE IF sld_response.exc
    THEN [ret |-> FALSE, put_sent |-> TRUE, msg |-> "exception"]
    ELSE IF sld_response.status_code \in {200, 201}
    THEN [ret |-> TRUE, put_sent |-> TRUE, msg |-> "uploaded"]
    ELSE [ret |-> FALSE, put_sent |-> TRUE, msg |-> "sld_upload_failed"]

\* style names used when upload_style is called directly
StyleNames == {"st_a", "st_b"}

\* ------------------------------------------------- ImprovedDataScanner
\* A name is a sequence of one-character strings.  NameChars has a lower
\* case letter, an upper case letter, a digit, the underscore and a
\* character outside [a-zA-Z0-9_]; Unnamed is the default name.
MaxNameLen == 3
NameChars == {"a", "B", "1", "_", "-"}
UpperCase == {"B"}
Unnamed == <<"u", "n", "n", "a", "m", "e", "d">>
NormInputs == SeqsUpTo(NameChars, MaxNameLen) \cup {Unnamed}

\* str.lower() on one character
Lower(c) == IF c = "B" THEN "b" ELSE c

\* the character class [a-z0-9_]
NormChars == (Letters \ UpperCase) \cup Digits \cup {"_"}

\* re.sub(r'[^a-z0-9_]', '_', name.lower()), line 1134
Substitute(name) ==
    [k \in 1..Len(name) |-> IF Lower(name[k]) \in NormChars THEN Lower(name[k]) ELSE "_"]

\* re.sub(r'_+', '_', normalized), line 1137
RECURSIVE Collapse(_)
Collapse(name) ==
    IF Len(name) <= 1 THEN name
    ELSE IF name[1] = "_" /\ name[2] = "_" THEN Collapse(Tail(name))
    ELSE <<name[1]>> \o Collapse(Tail(name))

\* normalized.strip('_'), line 1140
RECURSIVE Strip(_)
Strip(name) ==
    IF name = <<>> THEN name
    ELSE IF name[1] = "_" THEN Strip(Tail(name))
    ELSE IF name[Len(name)] = "_" THEN Strip(SubSeq(name, 1, Len(name) - 1))
    ELSE name

\* variant: no default for a name that normalises to nothing
normalize_name_NoDefault(name) == Strip(Collapse(Substitute(name)))

\* normalize_name, lines 1131-1144
normalize_name(name) ==
    LET normalized == Strip(Collapse(Substitute(name)))
    IN IF normalized = <<>> THEN Unnamed ELSE normalized

\* ------------------------------------------------------------------- Init
\* nothing outside the run has happened: no connection of the database
\* gateway, an empty data table, no worker thread
ExtIdle ==
    /\ tables = {}
    /\ indexes = {}
    /\ tx = "closed"
    /\ db_log = <<>>
    /\ name_log = <<>>
    /\ scanned_data = <<>>
    /\ workers = <<>>

Init ==
    /\ data_items \in SeqsUpTo(DataItems, MaxItems)
    /\ progress_callback \in BOOLEAN
    /\ status_callback \in BOOLEAN
    /\ params \in ParamChoices
    /\ pc = "connect"
    /\ i = 0
    /\ success_count = 0
    /\ error_count = 0
    /\ resp = NoResponse
    /\ result = NoResult
    /\ finished = <<>>
    /\ calls = <<>>
    /\ error_log = <<>>
    /\ status_line = <<>>
    /\ gs_log = <<>>
    /\ ExtIdle

\* ------------------------------------------- process_data_items: handlers
\* variant: no outer handler, the exception reaches the caller
OuterExcept_Propagates ==
    /\ pc' = "raised"
    /\ UNCHANGED result

\* The outer "except Exception" of process_data_items (lines 992-994).
OuterExcept ==
    /\ result' = Ret(FALSE, "exception", "exception", <<>>)
    /\ pc' = "done"

\* variant: the per-item handler logs the exception without counting it
ItemExcept_NotCounted(k) ==
    /\ error_count' = error_count
    /\ IF data_items[k].has_new_name
       THEN /\ error_log' = Append(error_log, [item |-> k, reason |-> "exception"])
            /\ i' = k + 1
            /\ pc' = "loop"
            /\ UNCHANGED result
       ELSE /\ OuterExcept
            /\ UNCHANGED <<error_log, i>>

\* The per-item "except Exception" (lines 974-976), entered for item k:
\* the item is counted, then the log line is formatted with
\* item['new_name']; without that key the handler itself raises and the
\* exception reaches the outer handler.
ItemExcept(k) ==
    /\ error_count' = error_count + 1
    /\ IF data_items[k].has_new_name
       THEN /\ error_log' = Append(error_log, [item |-> k, reason |-> "exception"])
            /\ i' = k + 1
            /\ pc' = "loop"
            /\ UNCHANGED result
       ELSE /\ OuterExcept
            /\ UNCHANGED <<error_log, i>>

\* An early "return False, ..." of the setup phase.
SetupFail(msg, detail) ==
    /\ result' = Ret(FALSE, msg, detail, <<>>)
    /\ pc' = "done"

\* ---------------------------------------------- process_data_items: setup
\* variant: the result of connect is not tested
Connect_NoEarlyReturn ==
    /\ pc = "connect"
    /\ \E outcome \in ConnectOutcomes :
         LET r == connect(params, outcome) IN
         /\ calls' = Append(calls, Ev("connect", 0, 0, IF r.success THEN "ok" ELSE "fail"))
         /\ pc' = "test_connection"
         /\ UNCHANGED result
    /\ UNCHANGED <<inputs, i, success_count, error_count, resp, finished,
                   error_log, status_line, gs_log, ext>>

Connect ==
    /\ pc = "connect"
    /\ \E outcome \in ConnectOutcomes :
         LET r == connect(params, outcome) IN
         /\ calls' = Append(calls, Ev("connect", 0, 0, IF r.success THEN "ok" ELSE "fail"))
         /\ IF r.success
            THEN pc' = "test_connection" /\ UNCHANGED result
            ELSE SetupFail("db_connect_failed", r.message)
    /\ UNCHANGED <<inputs, i, success_count, error_count, resp, finished,
                   error_log, status_line, gs_log, ext>>

TestConnection ==
    /\ pc = "test_connection"
    /\ \E response \in Responses :
         LET ok == test_connection(response) IN
         /\ resp' = response
         /\ calls' = Append(calls, Ev("test_connection", 0, 0, IF ok THEN "ok" ELSE "fail"))
         /\ IF ok
            THEN pc' = "create_workspace" /\ UNCHANGED result
            ELSE SetupFail("gs_connect_failed", "http")
    /\ UNCHANGED <<inputs, i, success_count, error_count, finished,
                   error_log, status_line, gs_log, ext>>

\* variant: the result of create_workspace is not tested
CreateWorkspace_NoEarlyReturn ==
    /\ pc = "create_workspace"
    /\ \E response \in Responses :
         LET ok == create_workspace(response) IN
         /\ resp' = response
         /\ calls' = Append(calls, Ev("create_workspace", 0, 0, IF ok THEN "ok" ELSE "fail"))
         /\ pc' = "create_datastore"
         /\ UNCHANGED result
    /\ UNCHANGED <<inputs, i, success_count, error_count, finished,
                   error_log, status_line, gs_log, ext>>

CreateWorkspace ==
    /\ pc = "create_workspace"
    /\ \E response \in Responses :
         LET ok == create_workspace(response) IN
         /\ resp' = response
         /\ calls' = Append(calls, Ev("create_workspace", 0, 0, IF ok THEN "ok" ELSE "fail"))
         /\ IF ok
            THEN pc' = "create_datastore" /\ UNCHANGED result
            ELSE SetupFail("workspace_failed", "http")
    /\ UNCHANGED <<inputs, i, success_count, error_count, finished,
                   error_log, status_line, gs_log, ext>>

\* Lines 934-945: the data store call, then the counters are set up.
CreateDatastore ==
    /\ pc = "create_datastore"
    /\ IF ~(DatastoreKeys \subseteq params)
       THEN \* KeyError while building datastore_data, outside the method's try
            /\ calls' = Append(calls, Ev("create_postgresql_datastore", 0, 0, "raise"))
            /\ OuterExcept
            /\ UNCHANGED <<resp, i, success_count, error_count>>
       ELSE \E response \in Responses :
              LET ok == create_postgresql_datastore(response) IN
              /\ resp' = response
              /\ calls' = Append(calls, Ev("create_postgresql_datastore", 0, 0,
                                           IF ok THEN "ok" ELSE "fail"))
              /\ IF ok
                 THEN /\ pc' = "loop"
                      /\ i' = 1
                      /\ success_count' = 0
                      /\ error_count' = 0
                      /\ UNCHANGED result
                 ELSE /\ SetupFail("datastore_failed", "http")
                      /\ UNCHANGED <<i, success_count, error_count>>
    /\ UNCHANGED <<inputs, finished, error_log, status_line, gs_log, ext>>

\* ------------------------------------------ process_data_items: item loop
\* What item.get('srs', 'EPSG:4326') may give when the import stage reads
\* it: a string for every item (the rows of a database scan, line 2266,
\* and every edited cell, line 2309), or None for the VECTOR and RASTER
\* items a folder scan makes of files whose CRS it does not look up
\* (line 1111).
ItemSrs(item) ==
    IF item.type \in {VECTOR, RASTER} THEN {"EPSG:4326", NoCrs} ELSE {"EPSG:4326"}

\* _import_single_item (lines 996-1028).  vector_ok is what
\* import_vector_file returns for a VECTOR item.  Reading item['new_name']
\* at line 1000 raises without the key, and so does the handler at line
\* 1027, so the KeyError leaves the method; otherwise every exception is
\* turned into False inside, the AttributeError of srid_text.startswith
\* (line 1004) for an item whose 'srs' is None among them: it comes before
\* the dispatch on the type.
\* variant: a raster item is taken for a table that is already there
_import_single_item_RasterAsTable(item, srs, vector_ok) ==
    IF ~item.has_new_name
    THEN [raised |-> TRUE, success |-> FALSE, call |-> "none"]
    ELSE IF srs = NoCrs
    THEN [raised |-> FALSE, success |-> FALSE, call |-> "none"]
    ELSE IF item.type = VECTOR
    THEN [raised |-> FALSE, success |-> vector_ok, call |-> "import_vector_file"]
    ELSE IF item.type \in {RASTER, EXISTING_SPATIAL_TABLE}
    THEN [raised |-> FALSE, success |-> TRUE, call |-> "none"]
    ELSE [raised |-> FALSE, success |-> FALSE, call |-> "none"]

\* variant: an item of unknown type is taken for a table that is already there
_import_single_item_UnknownAsTable(item, srs, vector_ok) ==
    IF ~item.has_new_name
    THEN [raised |-> TRUE, success |-> FALSE, call |-> "none"]
    ELSE IF srs = NoCrs
    THEN [raised |-> FALSE, success |-> FALSE, call |-> "none"]
    ELSE IF item.type = VECTOR
    THEN [raised |-> FALSE, success |-> vector_ok, call |-> "import_vector_file"]
    ELSE IF item.type = RASTER
    THEN [raised |-> FALSE, success |-> import_raster_file, call |-> "import_raster_file"]
    ELSE [raised |-> FALSE, success |-> TRUE, call |-> "none"]

_import_single_item(item, srs, vector_ok) ==
    IF ~item.has_new_name
    THEN [raised |-> TRUE, success |-> FALSE, call |-> "none"]
    ELSE IF srs = NoCrs
    THEN [raised |-> FALSE, success |-> FALSE, call |-> "none"]
    ELSE IF item.type = VECTOR
    THEN [raised |-> FALSE, success |-> vector_ok, call |-> "import_vector_file"]
    ELSE IF item.type = RASTER
    THEN [raised |-> FALSE, success |-> import_raster_file, call |-> "import_raster_file"]
    ELSE IF item.type = EXISTING_SPATIAL_TABLE
    THEN [raised |-> FALSE, success |-> TRUE, call |-> "none"]
    ELSE [raised |-> FALSE, success |-> FALSE, call |-> "none"]

\* _publish_single_item (lines 1030-1046): the publisher's answer, every
\* exception turned into False.
_publish_single_item(response) == publish_layer_from_table(response)

\* Lines 947-950: loop head and progress callback of item i.
Progress ==
    /\ pc = "loop"
    /\ i <= total_items
    /\ IF progress_callback
       THEN \E raises \in BOOLEAN :
              /\ calls' = Append(calls, Ev("progress", i, ProgressValue(i - 1, total_items),
                                           IF raises THEN "raise" ELSE "ok"))
              /\ IF raises
                 THEN ItemExcept(i) /\ UNCHANGED success_count
                 ELSE /\ pc' = "status"
                      /\ UNCHANGED <<i, success_count, error_count, error_log, result>>
       ELSE /\ pc' = "status"
            /\ UNCHANGED <<calls, i, success_count, error_count, error_log, result>>
    /\ UNCHANGED <<inputs, resp, finished, status_line, gs_log, ext>>

\* Lines 952-953: status callback of item i; its argument is formatted
\* from item['new_name'] before the call.
Status ==
    /\ pc = "status"
    /\ IF status_callback
       THEN IF ~data_items[i].has_new_name
            THEN /\ ItemExcept(i)
                 /\ UNCHANGED <<calls, success_count>>
            ELSE \E raises \in BOOLEAN :
                   /\ calls' = Append(calls, Ev("status", i, 0,
                                                IF raises THEN "raise" ELSE "ok"))
                   /\ IF raises
                      THEN ItemExcept(i) /\ UNCHANGED success_count
                      ELSE /\ pc' = "import"
                           /\ UNCHANGED <<i, success_count, error_count, error_log, result>>
       ELSE /\ pc' = "import"
            /\ UNCHANGED <<calls, i, success_count, error_count, error_log, result>>
    /\ UNCHANGED <<inputs, resp, finished, status_line, gs_log, ext>>

\* Lines 955-958 and 970-972: the import stage and the record of its failure.
Import ==
    /\ pc = "import"
    /\ \E vector_ok \in BOOLEAN, srs \in ItemSrs(data_items[i]) :
         LET r == _import_single_item(data_items[i], srs, vector_ok) IN
         /\ calls' = IF r.call = "none" THEN calls
                     ELSE Append(calls, Ev(r.call, i, 0, IF r.success THEN "ok" ELSE "fail"))
         /\ IF r.raised
            THEN ItemExcept(i)
            ELSE IF r.success
            THEN /\ pc' = "publish"
                 /\ UNCHANGED <<i, error_count, error_log, result>>
            ELSE /\ error_count' = error_count + 1
                 /\ error_log' = Append(error_log, [item |-> i, reason |-> "import_failed"])
                 /\ i' = i + 1
                 /\ pc' = "loop"
                 /\ UNCHANGED result
    /\ UNCHANGED <<inputs, success_count, resp, finished, status_line, gs_log, ext>>

\* variant: the item is counted as a success once its import succeeded
Publish_CountsImported ==
    /\ pc = "publish"
    /\ \E response \in Responses :
         LET publish_success == _publish_single_item(response) IN
         /\ resp' = response
         /\ calls' = Append(calls, Ev("publish_layer_from_table", i, 0,
                                      IF publish_success THEN "ok" ELSE "fail"))
         /\ success_count' = success_count + 1
         /\ UNCHANGED <<error_count, error_log>>
    /\ i' = i + 1
    /\ pc' = "loop"
    /\ UNCHANGED <<inputs, result, finished, status_line, gs_log, ext>>

\* variant: a failed publish request is sent again
Publish_Retry ==
    /\ pc = "publish"
    /\ \E response \in Responses :
         LET publish_success == _publish_single_item(response) IN
         /\ resp' = response
         /\ calls' = Append(calls, Ev("publish_layer_from_table", i, 0,
                                      IF publish_success THEN "ok" ELSE "fail"))
         /\ IF publish_success
            THEN /\ success_count' = success_count + 1
                 /\ i' = i + 1
                 /\ pc' = "loop"
            ELSE UNCHANGED <<success_count, i, pc>>
    /\ UNCHANGED <<inputs, result, finished, error_count, error_log, status_line,
                   gs_log, ext>>

\* Lines 959-969: the publish stage and the record of its outcome.
Publish ==
    /\ pc = "publish"
    /\ \E response \in Responses :
         LET publish_success == _publish_single_item(response) IN
         /\ resp' = response
         /\ calls' = Append(calls, Ev("publish_layer_from_table", i, 0,
                                      IF publish_success THEN "ok" ELSE "fail"))
         /\ IF publish_success
            THEN /\ success_count' = success_count + 1
                 /\ UNCHANGED <<error_count, error_log>>
            ELSE /\ error_count' = error_count + 1
                 /\ error_log' = Append(error_log, [item |-> i, reason |-> "publish_failed"])
                 /\ UNCHANGED success_count
    /\ i' = i + 1
    /\ pc' = "loop"
    /\ UNCHANGED <<inputs, result, finished, status_line, gs_log, ext>>

\* ------------------------------------- process_data_items: final reporting
\* Lines 978-979: the loop is over, progress_callback(100).
FinalProgress ==
    /\ pc = "loop"
    /\ i > total_items
    /\ IF progress_callback
       THEN \E raises \in BOOLEAN :
              /\ calls' = Append(calls, Ev("progress", 0, 100,
                                           IF raises THEN "raise" ELSE "ok"))
              /\ IF raises
                 THEN OuterExcept
                 ELSE pc' = "final_status" /\ UNCHANGED result
       ELSE /\ pc' = "final_status"
            /\ UNCHANGED <<calls, result>>
    /\ UNCHANGED <<inputs, i, success_count, error_count, resp, finished,
                   error_log, status_line, gs_log, ext>>

\* Lines 981-982: the final status line "success S, failed F".
FinalStatus ==
    /\ pc = "final_status"
    /\ IF status_callback
       THEN \E raises \in BOOLEAN :
              /\ calls' = Append(calls, Ev("status", 0, 0,
                                           IF raises THEN "raise" ELSE "ok"))
              /\ status_line' = <<success_count, error_count>>
              /\ IF raises
                 THEN OuterExcept
                 ELSE pc' = "return" /\ UNCHANGED result
       ELSE /\ pc' = "return"
            /\ UNCHANGED <<calls, status_line, result>>
    /\ UNCHANGED <<inputs, i, success_count, error_count, resp, finished,
                   error_log, gs_log, ext>>

\* Lines 984-990: log the totals and return (success_count > 0, "S/total").
Return ==
    /\ pc = "return"
    /\ result' = Ret(success_count > 0, "summary", "summary",
                     <<success_count, total_items>>)
    /\ pc' = "done"
    /\ UNCHANGED <<inputs, i, success_count, error_count, resp, finished,
                   calls, error_log, status_line, gs_log, ext>>

\* ------------------------------------------------------- WorkerThread.run
\* Lines 1159-1170: the task returned a tuple, finished.emit(success,
\* message); had the task raised, finished.emit(False, "操作失败: ...").
WorkerFinished ==
    /\ pc \in {"done", "raised"}
    /\ finished' = IF pc = "done" THEN <<result.ok, result.msg>>
                   ELSE <<FALSE, "worker_exception">>
    /\ pc' = "finished"
    /\ UNCHANGED <<inputs, i, success_count, error_count, resp, result,
                   calls, error_log, status_line, gs_log, ext>>

Next ==
    \/ Connect
    \/ TestConnection
    \/ CreateWorkspace
    \/ CreateDatastore
    \/ Progress
    \/ Status
    \/ Import
    \/ Publish
    \/ FinalProgress
    \/ FinalStatus
    \/ Return
    \/ WorkerFinished

Spec == Init /\ [][Next]_vars

\* process_data_items runs in one thread, statement after statement: as
\* long as every gateway call and every callback comes back, the step the
\* run is at is taken.  The runs are those over lists of up to
\* MaxLiveItems items.
MaxLiveItems == 2
InitLive == Init /\ Len(data_items) <= MaxLiveItems
SpecLive == InitLive /\ [][Next]_vars /\ WF_vars(Next)

\* The item loop on its own (lines 941-990): setup has succeeded, the
\* counters are at 0 (lines 942-943) and the loop is about to take the
\* first item; calls is the trace from there on.
InitLoop ==
    /\ data_items \in SeqsUpTo(DataItems, MaxItems)
    /\ progress_callback \in BOOLEAN
    /\ status_callback \in BOOLEAN
    /\ params = AllParamKeys
    /\ pc = "loop"
    /\ i = 1
    /\ success_count = 0
    /\ error_count = 0
    /\ resp = NoResponse
    /\ result = NoResult
    /\ finished = <<>>
    /\ calls = <<>>
    /\ error_log = <<>>
    /\ status_line = <<>>
    /\ gs_log = <<>>
    /\ ExtIdle

NextLoop ==
    \/ Progress
    \/ Status
    \/ Import
    \/ Publish
    \/ FinalProgress
    \/ FinalStatus
    \/ Return
    \/ WorkerFinished

SpecLoop == InitLoop /\ [][NextLoop]_vars

\* ------------------------------------------------ the progress value alone
\* The loop stands at the head of item i of a list of up to MaxTotal
\* items, past a setup that is left out; the only step is the progress
\* callback of lines 949-950 (and the handler of line 974 when it raises).
MaxTotal == 50

InitProgress ==
    /\ \E n \in 1..MaxTotal :
         data_items = [k \in 1..n |-> [type |-> EXISTING_SPATIAL_TABLE, has_new_name |-> TRUE]]
    /\ progress_callback \in BOOLEAN
    /\ status_callback = FALSE
    /\ params = AllParamKeys
    /\ pc = "loop"
    /\ i \in 1..Len(data_items)
    /\ success_count = 0
    /\ error_count = 0
    /\ resp = NoResponse
    /\ result = NoResult
    /\ finished = <<>>
    /\ calls = <<>>
    /\ error_log = <<>>
    /\ status_line = <<>>
    /\ gs_log = <<>>
    /\ ExtIdle

SpecProgress == InitProgress /\ [][Progress]_vars

\* ------------------------------------------ one item, import and publish
\* The two stages of one item with what they hand to the gateways.  An
\* item carries its 'new_name', 'srs' and 'style' (lines 1107-1118 and
\* 2261-2272).  The 'srs' text is a code the scanner found, the text a
\* table scan writes for a table without SRID (UnknownSrs, line 2266), any
\* text typed into the cell (line 2309), here a lower-case code, or None.
ItemNames == {"roads", "rivers"}
UnknownSrs == "unknown"
SrsTexts == CrsCodes \cup {"epsg:3857", UnknownSrs, NoCrs}
ItemStyles == {"default", "st_a"}
FullItems == [type : ItemTypes, has_new_name : {TRUE}, new_name : ItemNames,
              srs : SrsTexts, style : ItemStyles]

\* line 1004: srid_text if srid_text.startswith('EPSG:') else 'EPSG:4326'
import_target_crs(srid_text) ==
    IF srid_text \in CrsCodes THEN srid_text ELSE "EPSG:4326"

\* lines 722-738: the body of the feature type request
featuretype_data(table_name, layer_name, srs) ==
    [name |-> layer_name, nativeName |-> table_name, title |-> layer_name, srs |-> srs]

\* the style of a layer made from a request that names no style is the
\* server's own default
ServerStyle == "default"

InitItem ==
    /\ data_items \in {<<item>> : item \in FullItems}
    /\ progress_callback = FALSE
    /\ status_callback = FALSE
    /\ params = AllParamKeys
    /\ pc = "import"
    /\ i = 1
    /\ success_count = 0
    /\ error_count = 0
    /\ resp = NoResponse
    /\ result = NoResult
    /\ finished = <<>>
    /\ calls = <<>>
    /\ error_log = <<>>
    /\ status_line = <<>>
    /\ gs_log = <<>>
    /\ ExtIdle

\* _import_single_item (lines 996-1028) with the arguments of its call
ImportSingleItem ==
    /\ pc = "import"
    /\ \E vector_ok \in BOOLEAN :
         LET item == data_items[i]
             r == _import_single_item(item, item.srs, vector_ok)
         IN /\ db_log' = IF r.call = "none" THEN db_log
                          ELSE <<[op |-> r.call, table_name |-> item.new_name,
                                  target_crs |-> import_target_crs(item.srs),
                                  ret |-> r.success]>>
            /\ pc' = IF r.success THEN "publish" ELSE "done"
    /\ UNCHANGED <<inputs, i, success_count, error_count, resp, result, finished,
                   calls, error_log, status_line, gs_log, tables, indexes, tx,
                   name_log, scanned_data, workers>>

\* _publish_single_item (lines 1030-1046) with the request that
\* publish_layer_from_table posts (lines 715-759) and the style the new
\* layer has on the server
PublishSingleItem ==
    /\ pc = "publish"
    /\ \E response \in Responses :
         LET item == data_items[i]
             ok == _publish_single_item(response)
         IN /\ resp' = response
            /\ gs_log' = <<[op |-> "publish_layer_from_table",
                            request |-> featuretype_data(item.new_name, item.new_name,
                                                         item.srs),
                            ret |-> ok,
                            layer_style |-> IF ok THEN ServerStyle ELSE "none"]>>
    /\ pc' = "done"
    /\ UNCHANGED <<inputs, i, success_count, error_count, result, finished,
                   calls, error_log, status_line, ext>>

NextItem ==
    \/ ImportSingleItem
    \/ PublishSingleItem

SpecItem == InitItem /\ [][NextItem]_vars

\* ------------------------------------------- the gateway called directly
\* No run is in progress; create_workspace is called up to MaxCalls times
\* and each call is logged with the server's answer and the returned flag.
InitGS ==
    /\ data_items = <<>>
    /\ progress_callback = FALSE
    /\ status_callback = FALSE
    /\ params = AllParamKeys
    /\ pc = "idle"
    /\ i = 0
    /\ success_count = 0
    /\ error_count = 0
    /\ resp = NoResponse
    /\ result = NoResult
    /\ finished = <<>>
    /\ calls = <<>>
    /\ error_log = <<>>
    /\ status_line = <<>>
    /\ gs_log = <<>>
    /\ ExtIdle

GSCreateWorkspace ==
    /\ pc = "idle"
    /\ Len(gs_log) < MaxCalls
    /\ \E name \in WorkspaceNames, response \in Responses :
         /\ resp' = response
         /\ gs_log' = Append(gs_log, [op |-> "create_workspace", name |-> name,
                                      response |-> response,
                                      ret |-> create_workspace(response)])
    /\ UNCHANGED <<inputs, pc, i, success_count, error_count, result, finished,
                   calls, error_log, status_line, ext>>

NextGS == GSCreateWorkspace

SpecGS == InitGS /\ [][NextGS]_vars

\* ------------------------------------------------ upload_style called directly
\* upload_style is called up to MaxCalls times; each call is logged with
\* the answer to the POST, the answer to the PUT (NoResponse when the PUT
\* was not sent) and what the method returned.
GSUploadStyle ==
    /\ pc = "idle"
    /\ Len(gs_log) < MaxCalls
    /\ \E name \in StyleNames, response \in Responses, sld_response \in Responses :
         LET u == upload_style(response, sld_response) IN
         /\ resp' = IF u.put_sent THEN sld_response ELSE response
         /\ gs_log' = Append(gs_log,
                [op |-> "upload_style", name |-> name, response |-> response,
                 sld_response |-> IF u.put_sent THEN sld_response ELSE NoResponse,
                 put_sent |-> u.put_sent, ret |-> u.ret, msg |-> u.msg])
    /\ UNCHANGED <<inputs, pc, i, success_count, error_count, result, finished,
                   calls, error_log, status_line, ext>>

NextStyle == GSUploadStyle

SpecStyle == InitGS /\ [][NextStyle]_vars

\* ------------------------------------------------ the listings called directly
\* get_workspaces, get_datastores, get_layers and get_styles share one
\* body and differ in the URL and in the two keys they read.  The answer
\* to the GET is a status and a body: text that is no JSON, a JSON list,
\* or a JSON object that may hold one outer key; the value under it (the
\* wrapper) is a string, null or an object that may hold one inner key,
\* whose value is an object, a list of objects, a string or null.
MaxListLen == 2
ListingKeys == [get_workspaces |-> [outer |-> "workspaces", inner |-> "workspace"],
                get_datastores |-> [outer |-> "dataStores", inner |-> "dataStore"],
                get_layers |-> [outer |-> "layers", inner |-> "layer"],
                get_styles |-> [outer |-> "styles", inner |-> "style"]]
JsonObjects == {"x", "y"}
NoValue == [kind |-> "null", items |-> <<>>]
InnerValues ==
    {[kind |-> "dict", items |-> <<o>>] : o \in JsonObjects}
    \cup {[kind |-> "list", items |-> l] : l \in SeqsUpTo(JsonObjects, MaxListLen)}
    \cup {[kind |-> "str", items |-> <<>>], NoValue}
NoWrapper == [kind |-> "null", key |-> "none", value |-> NoValue]
Wrappers ==
    {w \in [kind : {"dict", "str", "null"},
            key : {ListingKeys[m].inner : m \in DOMAIN ListingKeys} \cup {"none"},
            value : InnerValues] :
        /\ w.kind # "dict" => w.key = "none"
        /\ w.key = "none" => w.value = NoValue}
Bodies ==
    {b \in [kind : {"dict", "list", "invalid"},
            key : {ListingKeys[m].outer : m \in DOMAIN ListingKeys} \cup {"none"},
            wrapper : Wrappers] :
        /\ b.kind # "dict" => b.key = "none"
        /\ b.key = "none" => b.wrapper = NoWrapper}

get_list_DropsSingle(keys, response, body) ==
    IF response.exc \/ response.status_code # 200 \/ body.kind # "dict"
    THEN <<>>
    ELSE IF body.key # keys.outer \/ body.wrapper.kind # "dict"
             \/ body.wrapper.key # keys.inner
    THEN <<>>
    ELSE IF body.wrapper.value.kind = "list"
    THEN body.wrapper.value.items
    ELSE <<>>

\* lines 816-834 (and 838-856, 860-878, 882-904): an exception of the
\* GET, of response.json() or of data.get is caught and gives []; so does
\* a status other than 200; data.get(outer, {}) is {} without the key; a
\* wrapper that is empty, null or no object gives [] (by the test or by
\* the exception of its indexing); an inner object is returned as a list
\* of itself, an inner list as it is, anything else as [].
get_list(keys, response, body) ==
    IF response.exc \/ response.status_code # 200 \/ body.kind # "dict"
    THEN <<>>
    ELSE IF body.key # keys.outer \/ body.wrapper.kind # "dict"
             \/ body.wrapper.key # keys.inner
    THEN <<>>
    ELSE IF body.wrapper.value.kind = "dict"
    THEN <<body.wrapper.value.items[1]>>
    ELSE IF body.wrapper.value.kind = "list"
    THEN body.wrapper.value.items
    ELSE <<>>

\* one call of one of the four methods; the log keeps the latest call
GSGetList ==
    /\ pc = "idle"
    /\ \E op \in DOMAIN ListingKeys, response \in Responses :
       \E body \in IF response = [exc |-> FALSE, status_code |-> 200]
                    THEN Bodies
                    ELSE {[kind |-> "invalid", key |-> "none", wrapper |-> NoWrapper]} :
         /\ resp' = response
         /\ gs_log' = <<[op |-> op, response |-> response, body |-> body,
                         ret |-> get_list(ListingKeys[op], response, body)]>>
    /\ UNCHANGED <<inputs, pc, i, success_count, error_count, result, finished,
                   calls, error_log, status_line, ext>>

SpecList == InitGS /\ [][GSGetList]_vars

\* ------------------------------------------ the database gateway called directly
\* One connected ImprovedPostgreSQLManager and a database that holds some
\* of TableNames.  Every call is logged with the database before and
\* after it, the number of SQL statements it sent, what it returned and
\* the call that came before it.
InitDB ==
    /\ data_items = <<>>
    /\ progress_callback = FALSE
    /\ status_callback = FALSE
    /\ params = AllParamKeys
    /\ pc = "idle"
    /\ i = 0
    /\ success_count = 0
    /\ error_count = 0
    /\ resp = NoResponse
    /\ result = NoResult
    /\ finished = <<>>
    /\ calls = <<>>
    /\ error_log = <<>>
    /\ status_line = <<>>
    /\ gs_log = <<>>
    /\ tables \in SUBSET TableNames
    /\ indexes \in SUBSET {[name |-> t, on |-> t] : t \in tables}
    /\ tx = "open"
    /\ db_log = <<>>
    /\ name_log = <<>>
    /\ scanned_data = <<>>
    /\ workers = <<>>

\* The log keeps the latest call only: the operation and its arguments,
\* whether the table existed and how the transaction stood before it,
\* the server's part in its main statement, whether tables or indexes
\* differ after it, the number of SQL statements it sent, what it
\* returned, whether the call before it was the same call, and for
\* import_vector_file the frame it read, the CRS it was asked for and what
\* it wrote.
NoIo == [file |-> [readable |-> FALSE, features |-> 0, crs |-> NoCrs],
         target_crs |-> NoCrs, written |-> NotWritten]

DbCall(op, table_name, new_name, stmt_ok, r, msg, io) ==
    <<[op |-> op, table |-> table_name, new_name |-> new_name,
       existed |-> table_name \in tables, tx_before |-> tx, stmt_ok |-> stmt_ok,
       changed |-> (r.db.tables # tables \/ r.db.indexes # indexes),
       sql |-> r.sql, ret |-> r.ret, msg |-> msg, io |-> io,
       repeat |-> IF /\ db_log # <<>>
                     /\ db_log[1].op = op
                     /\ db_log[1].table = table_name
                  THEN IF db_log[1].ret THEN "succeeded" ELSE "failed"
                  ELSE "no"]>>

DbStep(op, table_name, new_name, stmt_ok, r, msg, io) ==
    /\ tables' = r.db.tables
    /\ indexes' = r.db.indexes
    /\ tx' = r.db.tx
    /\ db_log' = DbCall(op, table_name, new_name, stmt_ok, r, msg, io)
    /\ UNCHANGED <<inputs, pc, i, success_count, error_count, resp, result,
                   finished, calls, error_log, status_line, gs_log,
                   name_log, scanned_data, workers>>

DBCheckTableExists ==
    /\ pc = "idle"
    /\ \E t \in TableNames, stmt_ok \in BOOLEAN :
           DbStep("check_table_exists", t, <<>>, stmt_ok,
                  check_table_exists(Database(tables, indexes, tx), t, stmt_ok), "", NoIo)

DBDropTable ==
    /\ pc = "idle"
    /\ \E t \in TableNames, stmt_ok \in BOOLEAN :
           DbStep("drop_table_if_exists", t, <<>>, stmt_ok,
                  drop_table_if_exists(Database(tables, indexes, tx), t, stmt_ok), "", NoIo)

DBCreateSpatialIndex ==
    /\ pc = "idle"
    /\ \E t \in TableNames, stmt_ok \in BOOLEAN :
           DbStep("create_spatial_index", t, <<>>, stmt_ok,
                  create_spatial_index(Database(tables, indexes, tx), t, stmt_ok), "", NoIo)

\* The server's answers to a statement that may be sent: both outcomes
\* when it can be sent, one (never looked at) when it cannot.
Answers(sent) == IF sent THEN BOOLEAN ELSE {TRUE}

\* stmt_ok of the logged call is the outcome of the write (to_postgis)
DBImportVectorFile ==
    /\ pc = "idle"
    /\ \E t \in TableNames, file \in FileOutcomes, target_crs \in CrsCodes :
       \E check_ok \in Answers(file.features > 0), drop_ok \in Answers(file.features > 0),
          write_ok \in Answers(file.features > 0) :
       \E index_ok \in Answers(file.features > 0 /\ write_ok) :
           LET r == import_vector_file(Database(tables, indexes, tx), t, file, target_crs,
                                       check_ok, drop_ok, write_ok, index_ok)
           IN DbStep("import_vector_file", t, <<>>, write_ok, r, r.msg,
                     [file |-> file, target_crs |-> target_crs, written |-> r.written])

NextDB ==
    \/ DBCheckTableExists
    \/ DBDropTable
    \/ DBCreateSpatialIndex
    \/ DBImportVectorFile

SpecDB == InitDB /\ [][NextDB]_vars

\* ------------------------------------------------------- renaming a table
\* A rename is logged with its two names, whether tables or indexes differ
\* after it, the number of SQL statements sent, and what came back.
RenameStep(op, old_name, new_name, r) ==
    /\ tables' = r.db.tables
    /\ indexes' = r.db.indexes
    /\ tx' = r.db.tx
    /\ db_log' = <<[op |-> op, table |-> old_name, new_name |-> new_name,
                    changed |-> (r.db.tables # tables \/ r.db.indexes # indexes),
                    sql |-> r.sql, ret |-> r.ret, msg |-> r.msg]>>
    /\ UNCHANGED <<inputs, pc, i, success_count, error_count, resp, result,
                   finished, calls, error_log, status_line, gs_log,
                   name_log, scanned_data, workers>>

DBRenameTable ==
    /\ pc = "idle"
    /\ \E old_name \in TableNames, new_name \in RenameInputs, stmt_ok \in BOOLEAN :
           RenameStep("rename_table", old_name, new_name,
                      rename_table(Database(tables, indexes, tx), old_name, new_name, stmt_ok))

\* ImprovedMainWindow.rename_table (lines 2139-2186): the name typed into
\* the dialog is checked before a gateway object of its own is made and
\* connected; that connection is not the one tx describes.
GuiRename(d, current_name, new_name, outcome, stmt_ok) ==
    IF new_name = <<>> \/ new_name = current_name
    THEN [db |-> d, ret |-> FALSE, sql |-> 0, msg |-> "none"]
    ELSE IF ~ValidTableName(new_name)
    THEN [db |-> d, ret |-> FALSE, sql |-> 0, msg |-> "name_error"]
    ELSE IF ~connect(params, outcome).success
    THEN [db |-> d, ret |-> FALSE, sql |-> IF outcome = "error" THEN 0 ELSE 1,
          msg |-> "db_connect_failed"]
    ELSE LET r == rename_table([d EXCEPT !.tx = "open"], current_name, new_name, stmt_ok)
         IN [db |-> [r.db EXCEPT !.tx = d.tx], ret |-> r.ret, sql |-> 1 + r.sql,
             msg |-> r.msg]

GuiRenameTable ==
    /\ pc = "idle"
    /\ \E current_name \in TableNames, new_name \in RenameInputs,
          outcome \in ConnectOutcomes, stmt_ok \in BOOLEAN :
           LET r == GuiRename(Database(tables, indexes, tx), current_name, new_name,
                              outcome, stmt_ok)
           IN RenameStep("gui_rename_table", current_name, new_name, r)

NextRename ==
    \/ DBRenameTable
    \/ GuiRenameTable

SpecRename == InitDB /\ [][NextRename]_vars

\* ----------------------------------------------- normalize_name on its own
\* name_log starts with an input and grows by the normalisation of its
\* last element, up to MaxCalls times.
InitNorm ==
    /\ data_items = <<>>
    /\ progress_callback = FALSE
    /\ status_callback = FALSE
    /\ params = AllParamKeys
    /\ pc = "idle"
    /\ i = 0
    /\ success_count = 0
    /\ error_count = 0
    /\ resp = NoResponse
    /\ result = NoResult
    /\ finished = <<>>
    /\ calls = <<>>
    /\ error_log = <<>>
    /\ status_line = <<>>
    /\ gs_log = <<>>
    /\ tables = {}
    /\ indexes = {}
    /\ tx = "closed"
    /\ db_log = <<>>
    /\ \E name \in NormInputs : name_log = <<name>>
    /\ scanned_data = <<>>
    /\ workers = <<>>

NormalizeName ==
    /\ pc = "idle"
    /\ Len(name_log) <= MaxCalls
    /\ name_log' = Append(name_log, normalize_name(name_log[Len(name_log)]))
    /\ UNCHANGED <<inputs, pc, i, success_count, error_count, resp, result,
                   finished, calls, error_log, status_line, gs_log,
                   tables, indexes, tx, db_log, scanned_data, workers>>

NextNorm == NormalizeName

SpecNorm == InitNorm /\ [][NextNorm]_vars

\* -------------------------------------------- column names of an import
\* lines 452-456 of import_vector_file: the clean name of a column other
\* than 'geom' is re.sub(r'[^a-zA-Z0-9_]', '_', col.lower()); after
\* lower() the class [^a-zA-Z0-9_] takes the same characters of the model's
\* alphabet as [^a-z0-9_].
clean_col(col) == Substitute(col)

\* name_log starts with a column name and gets its clean name.
CleanColumn ==
    /\ pc = "idle"
    /\ pc' = "cleaned"
    /\ name_log' = Append(name_log, clean_col(name_log[1]))
    /\ UNCHANGED <<inputs, i, success_count, error_count, resp, result,
                   finished, calls, error_log, status_line, gs_log,
                   tables, indexes, tx, db_log, scanned_data, workers>>

SpecColumns == InitNorm /\ [][CleanColumn]_vars

\* ------------------------------------------------ the rows of the data table
\* scanned_data holds, for every row, where the row came from and its
\* new_name.  File stems, table names, typed cell values and prefixes are
\* short strings over ScanChars.
MaxRows == 2
MaxScanLen == 2
MaxNewNameLen == 5
ScanChars == {"a", "B", "1", "-"}
ScanInputs == SeqsUpTo(ScanChars, MaxScanLen)

InitScan ==
    /\ data_items = <<>>
    /\ progress_callback = FALSE
    /\ status_callback = FALSE
    /\ params = AllParamKeys
    /\ pc = "idle"
    /\ i = 0
    /\ success_count = 0
    /\ error_count = 0
    /\ resp = NoResponse
    /\ result = NoResult
    /\ finished = <<>>
    /\ calls = <<>>
    /\ error_log = <<>>
    /\ status_line = <<>>
    /\ gs_log = <<>>
    /\ tables = {}
    /\ indexes = {}
    /\ tx = "closed"
    /\ db_log = <<>>
    /\ name_log = <<>>
    /\ scanned_data = <<>>
    /\ workers = <<>>

ScanUnchanged ==
    UNCHANGED <<inputs, pc, i, success_count, error_count, resp, result,
                finished, calls, error_log, status_line, gs_log,
                tables, indexes, tx, db_log, name_log, workers>>

\* scan_data with the folder button checked (lines 2204-2207, 2218-2232):
\* the list is replaced by what scan_folder found, one row per file
ScanFolderData ==
    /\ pc = "idle"
    /\ \E stems \in SeqsUpTo(ScanInputs \ {<<>>}, MaxRows) :
         scanned_data' = [r \in 1..Len(stems) |->
                            [source |-> "folder", new_name |-> normalize_name(stems[r])]]
    /\ ScanUnchanged

\* scan_data with the database button checked (lines 2204-2207,
\* 2242-2276): one row per spatial table, new_name is the table's name
ScanPostgresqlData ==
    /\ pc = "idle"
    /\ \E table_names \in SeqsUpTo(ScanInputs \ {<<>>}, MaxRows) :
         scanned_data' = [r \in 1..Len(table_names) |->
                            [source |-> "table", new_name |-> table_names[r]]]
    /\ ScanUnchanged

\* on_cell_changed, column 4 (lines 2309-2315)
CellChanged ==
    /\ pc = "idle"
    /\ \E row \in 1..Len(scanned_data), value \in ScanInputs :
         scanned_data' = [scanned_data EXCEPT ![row].new_name = normalize_name(value)]
    /\ ScanUnchanged

\* batch_rename, lines 2352-2357; the new names are kept within
\* MaxNewNameLen characters
BatchRename ==
    /\ pc = "idle"
    /\ scanned_data # <<>>
    /\ \E prefix \in ScanInputs \ {<<>>} :
         LET renamed == [r \in 1..Len(scanned_data) |->
                           [scanned_data[r] EXCEPT
                              !.new_name = normalize_name(prefix \o <<"_">> \o @)]]
         IN /\ \A r \in 1..Len(scanned_data) : Len(renamed[r].new_name) <= MaxNewNameLen
            /\ scanned_data' = renamed
    /\ ScanUnchanged

NextScan ==
    \/ ScanFolderData
    \/ ScanPostgresqlData
    \/ CellChanged
    \/ BatchRename

SpecScan == InitScan /\ [][NextScan]_vars

\* ------------------------------------------------------- what a scan finds
\* The files of the scanned folder, by their suffix in lower case and by
\* what fiona or rasterio finds in them when detect_crs opens them: a CRS
\* with an 'init' key, a CRS whose text holds an EPSG code, a CRS without
\* EPSG code, no CRS, or an exception.
vector_extensions == {".shp", ".geojson", ".kml", ".gpkg", ".gml"}
raster_extensions == {".tif", ".tiff", ".img", ".jp2", ".png", ".jpg"}
DetectedExtensions == {".shp", ".geojson", ".gpkg", ".tif", ".tiff"}
FoundFiles ==
    {f \in [ext : vector_extensions \cup raster_extensions,
            found : {"init=epsg:3857", "EPSG:3857", "no_epsg", NoCrs, "raised"}] :
        f.ext \notin DetectedExtensions => f.found = NoCrs}

\* detect_crs, lines 169-207, for the suffixes get_file_info calls it with
detect_crs(file) ==
    IF file.found \in {"init=epsg:3857", "EPSG:3857"}
    THEN "EPSG:3857"
    ELSE "EPSG:4326"

\* get_file_info, lines 257-303: 'crs' starts as None and is set only in
\* the branches of the suffixes of DetectedExtensions
get_file_info(file) ==
    [crs |-> IF file.ext \in DetectedExtensions THEN detect_crs(file) ELSE NoCrs]

\* scan_folder, lines 1083-1129: one data_item per file found (lines
\* 1107-1118); file_info always has the key 'crs', so the default of
\* file_info.get('crs', 'EPSG:4326') is never taken
ScanFolder ==
    /\ pc = "idle"
    /\ \E files \in SeqsUpTo(FoundFiles, MaxRows) :
         scanned_data' = [r \in 1..Len(files) |->
                            [source |-> "folder", file |-> files[r],
                             srs |-> get_file_info(files[r]).crs]]
    /\ ScanUnchanged

SpecFolder == InitScan /\ [][ScanFolder]_vars

\* ------------------------------------------------- the buttons that start a run
\* The data table holds some rows.  workers lists the WorkerThreads that
\* were started and have not finished, each with the handler that made it
\* and the number of rows its run is through.  The thread object is held
\* by a local variable of the handler only (lines 2577, 2666): when the
\* handler returns before run() is entered the object is destroyed with
\* its thread running and the process aborts.
MaxWorkers == 2
TableRows == {[source |-> "folder", new_name |-> <<"a">>],
              [source |-> "table", new_name |-> <<"B">>]}

InitGUI ==
    /\ data_items = <<>>
    /\ progress_callback = FALSE
    /\ status_callback = FALSE
    /\ params = AllParamKeys
    /\ pc = "idle"
    /\ i = 0
    /\ success_count = 0
    /\ error_count = 0
    /\ resp = NoResponse
    /\ result = NoResult
    /\ finished = <<>>
    /\ calls = <<>>
    /\ error_log = <<>>
    /\ status_line = <<>>
    /\ gs_log = <<>>
    /\ tables = {}
    /\ indexes = {}
    /\ tx = "closed"
    /\ db_log = <<>>
    /\ name_log = <<>>
    /\ scanned_data \in SeqsUpTo(TableRows, MaxRows)
    /\ workers = <<>>

GuiUnchanged ==
    UNCHANGED <<inputs, i, success_count, error_count, resp, result,
                finished, calls, error_log, status_line, gs_log,
                tables, indexes, tx, db_log, name_log, scanned_data>>

\* The gateway objects of the window itself: self.db_connection and
\* self.gs_connection, made once in the constructor of the window.
GuiGateway == 0

\* An object made now is none of the objects the running workers hold.
NewObject(held) ==
    CHOOSE n \in 1..(Cardinality(held) + 1) :
        /\ n \notin held
        /\ \A m \in 1..(n - 1) : m \in held

ImprovedBatchProcessor_GuiGateways(ws) ==
    [connection |-> GuiGateway, session |-> GuiGateway]

\* ImprovedBatchProcessor(pg_params, gs_config), lines 908-911, called
\* first thing by the task of a worker (lines 2543, 2643): the processor
\* makes its own ImprovedPostgreSQLManager, whose connect() (line 344)
\* opens the connection of the run, and its own ImprovedGeoServerPublisher,
\* whose constructor (line 611) makes the requests.Session of the run.
ImprovedBatchProcessor(ws) ==
    [connection |-> NewObject({ws[k].processor.connection : k \in 1..Len(ws)}),
     session |-> NewObject({ws[k].processor.session : k \in 1..Len(ws)})]

\* thread = WorkerThread(task); thread.start()
StartWorker(task) ==
    \E entered \in BOOLEAN :
        IF entered
        THEN /\ workers' = Append(workers, [task |-> task, i |-> 0,
                                            processor |-> ImprovedBatchProcessor(workers)])
             /\ pc' = pc
        ELSE /\ workers' = <<>>
             /\ pc' = "aborted"

\* import_and_publish, lines 2601-2672; the connections are up, a
\* workspace is chosen and the question is answered with Yes
ImportAndPublish ==
    /\ pc = "idle"
    /\ scanned_data # <<>>
    /\ Len(workers) < MaxWorkers
    /\ StartWorker("import_and_publish")
    /\ GuiUnchanged

\* publish_to_geoserver, lines 2517-2583
PublishToGeoserver ==
    /\ pc = "idle"
    /\ scanned_data # <<>>
    /\ Len(workers) < MaxWorkers
    /\ StartWorker("publish_to_geoserver")
    /\ GuiUnchanged

\* one more row of self.scanned_data processed by a running worker
WorkerProcessItem ==
    /\ pc = "idle"
    /\ \E w \in 1..Len(workers) :
         /\ workers[w].i < Len(scanned_data)
         /\ workers' = [workers EXCEPT ![w].i = @ + 1]
    /\ UNCHANGED pc
    /\ GuiUnchanged

\* WorkerThread.run returns: finished is emitted and the thread ends
WorkerThreadEnds ==
    /\ pc = "idle"
    /\ \E w \in 1..Len(workers) :
         /\ workers[w].i = Len(scanned_data)
         /\ workers' = [k \in 1..(Len(workers) - 1) |->
                           IF k < w THEN workers[k] ELSE workers[k + 1]]
    /\ UNCHANGED pc
    /\ GuiUnchanged

NextGUI ==
    \/ ImportAndPublish
    \/ PublishToGeoserver
    \/ WorkerProcessItem
    \/ WorkerThreadEnds

SpecGUI == InitGUI /\ [][NextGUI]_vars

\* The same window with the cells of its table edited while workers run:
\* cellChanged stays connected to on_cell_changed all the time (nothing
\* disables the table when a worker is started), and the tasks hand
\* self.scanned_data itself, not a copy, to process_data_items (lines
\* 2553, 2652).
NextEdit ==
    \/ NextGUI
    \/ CellChanged

SpecEdit == InitGUI /\ [][NextEdit]_vars

\* ---------------------------------------------------- vocabulary of claims
SetupOps == <<"connect", "test_connection", "create_workspace",
              "create_postgresql_datastore">>
SetupOpSet == {SetupOps[j] : j \in 1..Len(SetupOps)}

\* process_data_items has returned to its caller
Returned == pc \in {"done", "finished"}

\* all four setup steps succeeded
SetupPassed == Len(calls) >= 4 /\ calls[4].res = "ok"

\* the for loop ran to its end
LoopCompleted == i = total_items + 1

\* the gateway accepted the publish request of item k
PublishedOk(k) ==
    \E j \in 1..Len(calls) :
        /\ calls[j].op = "publish_layer_from_table"
        /\ calls[j].item = k
        /\ calls[j].res = "ok"

\* the loop is through with item k (or the run ended inside item k)
Visited(k) == k < i \/ (k = i /\ Returned)

SucceededItems == {k \in 1..total_items : PublishedOk(k)}
FailedItems == {k \in 1..total_items : Visited(k) /\ ~PublishedOk(k)}

NoCallbackRaised == \A j \in 1..Len(calls) : calls[j].res # "raise"

C2_Scenario ==
    /\ Returned
    /\ SetupPassed
    /\ Len(data_items) = 3
    /\ \A k \in 1..3 : data_items[k].has_new_name
    /\ data_items[1].type = VECTOR
    /\ data_items[2].type = RASTER
    /\ data_items[3].type = EXISTING_SPATIAL_TABLE
    /\ NoCallbackRaised
    /\ PublishedOk(1)
    /\ PublishedOk(3)

C3_ConnectFailure ==
    (Len(calls) >= 1 /\ calls[1].res = "fail") =>
        /\ Returned
        /\ Len(calls) = 1
        /\ i = 0
        /\ success_count = 0
        /\ error_count = 0
        /\ error_log = <<>>
        /\ status_line = <<>>
        /\ ~result.ok
        /\ result.msg = "db_connect_failed"
        /\ result.detail \in {"error", "no_postgis"}

C3_Witness ==
    /\ pc = "done"
    /\ result.msg = "db_connect_failed"
    /\ result.detail = "error"
    /\ AllParamKeys \subseteq params
    /\ Len(data_items) = 2

\* C4: the setup steps run in the order connect, test_connection,
\* create_workspace, create_postgresql_datastore, nothing else comes among
\* them, and a step that does not succeed is the last call of the run: the
\* run has returned failure and no item was started.
C4_SetupOrder ==
    /\ \A j \in 1..Len(calls) :
          IF j <= 4 THEN calls[j].op = SetupOps[j]
                    ELSE calls[j].op \notin SetupOpSet
    /\ \A j \in 1..Len(calls) :
          (j <= 4 /\ calls[j].res # "ok") =>
              /\ Len(calls) = j
              /\ Returned
              /\ ~result.ok
              /\ i = 0
    /\ (i >= 1) => SetupPassed

C4_Witness ==
    /\ pc = "done"
    /\ Len(calls) = 3
    /\ calls[3].op = "create_workspace"
    /\ calls[3].res = "fail"
    /\ progress_callback
    /\ status_callback
    /\ Len(data_items) = 2

\* C5: for every run that passed setup, the returned flag is true exactly
\* when success_count > 0.
C5_Claim == (Returned /\ SetupPassed) => (result.ok <=> success_count > 0)

C7_Claim ==
    (Returned /\ SetupPassed) =>
        /\ result.msg = "summary"
        /\ result.nums = <<Cardinality(SucceededItems), total_items>>
        /\ status_callback =>
              status_line = <<Cardinality(SucceededItems), Cardinality(FailedItems)>>

\* C8: no exception leaves process_data_items; whenever the call is over
\* the caller holds a (flag, message) pair, and it is that pair the worker
\* thread emits.
C8_NoEscape ==
    /\ pc # "raised"
    /\ Returned => (result.ok \in BOOLEAN /\ result.msg # "none")
    /\ pc = "finished" => finished = <<result.ok, result.msg>>

C8_Witness ==
    /\ pc = "finished"
    /\ finished = <<FALSE, "exception">>
    /\ calls[Len(calls)].op = "progress"
    /\ calls[Len(calls)].val = 100
    /\ calls[Len(calls)].res = "raise"
    /\ success_count > 0

\* C9: create_workspace returns success exactly for the answers 200, 201
\* and 409, failure for any other status and for a transport exception; two
\* calls with one name, the first answered "created" and the second 409,
\* both return success.
C9_CreateWorkspace ==
    /\ \A j \in 1..Len(gs_log) :
          gs_log[j].ret <=> (/\ ~gs_log[j].response.exc
                             /\ gs_log[j].response.status_code \in {200, 201, 409})
    /\ \A j, k \in 1..Len(gs_log) :
          (/\ j < k
           /\ gs_log[j].name = gs_log[k].name
           /\ ~gs_log[j].response.exc
           /\ gs_log[j].response.status_code \in {200, 201}
           /\ ~gs_log[k].response.exc
           /\ gs_log[k].response.status_code = 409)
          => (gs_log[j].ret /\ gs_log[k].ret)

C9_Witness ==
    /\ Len(gs_log) = 2
    /\ gs_log[1].name = gs_log[2].name
    /\ gs_log[1].response = [exc |-> FALSE, status_code |-> 201]
    /\ gs_log[2].response = [exc |-> FALSE, status_code |-> 409]
    /\ gs_log[1].ret
    /\ gs_log[2].ret

\* C10: the data store step of setup succeeds exactly for the answers 200,
\* 201 and 409; after such an answer (409 for an existing store included)
\* the run goes on to the items, after any other answer or a transport
\* exception it returns the data store failure.
C10_Datastore ==
    (Len(calls) = 4 /\ calls[4].res # "raise") =>
        LET good == ~resp.exc /\ resp.status_code \in {200, 201, 409} IN
        /\ (calls[4].res = "ok") <=> good
        /\ good <=> (i >= 1)
        /\ good => result.msg \notin {"datastore_failed"}
        /\ ~good => /\ Returned
                    /\ ~result.ok
                    /\ result.msg = "datastore_failed"

C10_Witness ==
    /\ Len(calls) = 4
    /\ calls[4].op = "create_postgresql_datastore"
    /\ resp = [exc |-> FALSE, status_code |-> 409]
    /\ pc = "status"
    /\ i = 1

\* C11: publish_layer_from_table succeeds only for the answers 200 and
\* 201.  A 409 conflict is a failure: when the server accepts the layer of
\* one item and answers 409 to the publish request of a later item, the
\* first item is a success and the later one is recorded and counted as a
\* failed item of the batch.
C11_PublishConflict ==
    (Len(calls) > 0 /\ calls[Len(calls)].op = "publish_layer_from_table") =>
        LET e == calls[Len(calls)]
            good == ~resp.exc /\ resp.status_code \in {200, 201}
        IN
        /\ (e.res = "ok") <=> good
        /\ good => e.item \in SucceededItems
        /\ (~resp.exc /\ resp.status_code = 409) =>
              /\ e.res = "fail"
              /\ e.item \in FailedItems
              /\ e.item \notin SucceededItems
              /\ Cardinality({j \in 1..Len(error_log) :
                                 error_log[j] = [item |-> e.item,
                                                 reason |-> "publish_failed"]}) = 1
              /\ error_count >= 1
              /\ success_count = Cardinality(SucceededItems)

C11_Witness ==
    /\ Len(calls) > 0
    /\ calls[Len(calls)].op = "publish_layer_from_table"
    /\ calls[Len(calls)].item = 2
    /\ calls[Len(calls)].res = "fail"
    /\ resp = [exc |-> FALSE, status_code |-> 409]
    /\ PublishedOk(1)
    /\ 2 \in FailedItems

\* C12: upload_style has two phases.  When the POST of the descriptor
\* fails in transport or is answered by anything other than 200, 201 or
\* 409, the method fails and the PUT of the SLD body is never sent;
\* otherwise the PUT is sent and the method succeeds exactly when the PUT
\* is answered 200 or 201.
C12_UploadStyle ==
    \A j \in 1..Len(gs_log) :
        LET e == gs_log[j]
            step1 == ~e.response.exc /\ e.response.status_code \in {200, 201, 409}
            step2 == ~e.sld_response.exc /\ e.sld_response.status_code \in {200, 201}
        IN
        /\ ~step1 => (~e.ret /\ ~e.put_sent /\ e.sld_response = NoResponse)
        /\ step1 => (e.put_sent /\ (e.ret <=> step2))

C12_Witness ==
    /\ Len(gs_log) = 3
    /\ gs_log[1].response = [exc |-> FALSE, status_code |-> 500]
    /\ ~gs_log[1].put_sent
    /\ ~gs_log[1].ret
    /\ gs_log[2].response = [exc |-> FALSE, status_code |-> 409]
    /\ gs_log[2].sld_response = [exc |-> FALSE, status_code |-> 200]
    /\ gs_log[2].ret
    /\ gs_log[3].response = [exc |-> FALSE, status_code |-> 201]
    /\ gs_log[3].sld_response = [exc |-> FALSE, status_code |-> 500]
    /\ gs_log[3].put_sent
    /\ ~gs_log[3].ret

C14_Claim ==
    (/\ db_log # <<>>
     /\ db_log[1].op \in {"drop_table_if_exists", "create_spatial_index",
                           "import_vector_file"}
     /\ ~db_log[1].ret) => ~db_log[1].changed

\* C17: a rename whose new name violates ^[a-zA-Z][a-zA-Z0-9_]*$ is
\* rejected before any SQL is executed: it fails with a name error, no
\* statement is sent and nothing in the database changes.
C17_Claim ==
    (/\ db_log # <<>>
     /\ db_log[1].op \in {"rename_table", "gui_rename_table"}
     /\ ~ValidTableName(db_log[1].new_name)) =>
        /\ db_log[1].sql = 0
        /\ ~db_log[1].ret
        /\ db_log[1].msg = "name_error"
        /\ ~db_log[1].changed

\* C15: connect answers with a failure value, never an exception, both
\* when the connection cannot be made and when the PostGIS extension is
\* missing; the missing extension has a message of its own, and a run
\* whose connect fails that way returns at once without processing any
\* item.
C15_ConnectPostgis ==
    /\ \A p \in ParamChoices, outcome \in ConnectOutcomes :
          LET r == connect(p, outcome) IN
          /\ outcome \in {"error", "no_postgis"} => ~r.success
          /\ r.message = "no_postgis" <=>
                (outcome = "no_postgis" /\ {"host", "port"} \subseteq p)
    /\ Len(calls) >= 1 => (calls[1].op = "connect" /\ calls[1].res \in {"ok", "fail"})
    /\ (result.msg = "db_connect_failed" /\ result.detail = "no_postgis") =>
          /\ Returned
          /\ ~result.ok
          /\ calls = <<Ev("connect", 0, 0, "fail")>>
          /\ i = 0
          /\ success_count = 0
          /\ error_count = 0
          /\ error_log = <<>>
          /\ finished \in {<<>>, <<FALSE, "db_connect_failed">>}

C15_Witness ==
    /\ pc = "finished"
    /\ result.msg = "db_connect_failed"
    /\ result.detail = "no_postgis"
    /\ Len(data_items) = 2
    /\ calls = <<Ev("connect", 0, 0, "fail")>>

\* C16: import_raster_file always reports failure.  In a batch a RASTER
\* item is never published; once its import was tried the item has
\* exactly one failure record, the import failure, counts as a failed
\* item, and the loop has moved on to the items after it.
C16_Raster ==
    /\ ~import_raster_file
    /\ \A j \in 1..Len(calls) :
          calls[j].op = "publish_layer_from_table" => data_items[calls[j].item].type # RASTER
    /\ \A j \in 1..Len(calls) :
          calls[j].op = "import_raster_file" =>
              LET k == calls[j].item IN
              /\ data_items[k].type = RASTER
              /\ calls[j].res = "fail"
              /\ k < i
              /\ k \in FailedItems
              /\ {m \in 1..Len(error_log) : error_log[m].item = k} # {}
              /\ \A m \in 1..Len(error_log) :
                    error_log[m].item = k => error_log[m].reason = "import_failed"
              /\ Cardinality({m \in 1..Len(error_log) : error_log[m].item = k}) = 1
              /\ error_count >= 1

C16_Witness ==
    /\ Len(data_items) = 3
    /\ data_items[2].type = RASTER
    /\ PublishedOk(1)
    /\ \E j \in 1..Len(calls) :
          calls[j] = Ev("import_raster_file", 2, 0, "fail")
    /\ PublishedOk(3)
    /\ error_log = <<[item |-> 2, reason |-> "import_failed"]>>
    /\ Returned
    /\ result.ok

\* a name that matches ^[a-z0-9_]+$
MatchesNormPattern(name) ==
    /\ Len(name) >= 1
    /\ \A k \in 1..Len(name) : name[k] \in NormChars

\* the letters and digits of a name, lower-cased, in their order
ValidChars(name) ==
    SelectSeq(Substitute(name), LAMBDA c : c # "_")

C19_Claim ==
    \A r \in 1..Len(scanned_data) :
        /\ MatchesNormPattern(scanned_data[r].new_name)
        /\ scanned_data[r].new_name[1] \notin Digits

\* C20: at most one orchestration run is active at a time: while a worker
\* started by import_and_publish or publish_to_geoserver is running, no
\* second run is started.
C20_Claim == Len(workers) <= 1
\* C21: in any interleaving of runs, no database connection object and no
\* HTTP session object is used by two runs: any two workers that run at
\* the same time hold different connections and different sessions, and
\* none of them holds the connection or the session of the window.
C21_OwnGateways ==
    \A a, b \in 1..Len(workers) :
        /\ workers[a].processor.connection # GuiGateway
        /\ workers[a].processor.session # GuiGateway
        /\ a # b => /\ workers[a].processor.connection # workers[b].processor.connection
                    /\ workers[a].processor.session # workers[b].processor.session

C21_Witness ==
    /\ Len(workers) = 2
    /\ workers[1].i >= 1
    /\ workers[2].i >= 1

\* C22: between the start of a run and its return no other actor changes
\* an item the run has yet to process: no step changes a row of the list
\* that lies beyond the rows some running worker is through.
C22_Claim ==
    [][\A w \in 1..Len(workers) :
          \A r \in 1..Len(scanned_data) :
              r > workers[w].i => /\ r <= Len(scanned_data')
                                  /\ scanned_data'[r] = scanned_data[r]]_vars

\* C23: whenever import_vector_file reports success, the rows written to
\* the destination table number exactly the features of the source and
\* their CRS is the target CRS asked for; the geometries were reprojected
\* when the source had another CRS, and were left as they were when it
\* had the target CRS or none.
C23_VectorImport ==
    \A k \in 1..Len(db_log) :
        (db_log[k].op = "import_vector_file" /\ db_log[k].ret)
            => LET io == db_log[k].io
               IN /\ io.file.readable
                  /\ io.written.rows = io.file.features
                  /\ io.written.rows >= 1
                  /\ io.written.crs = io.target_crs
                  /\ io.written.reprojected
                        <=> (io.file.crs \in CrsCodes /\ io.file.crs # io.target_crs)

C23_Witness ==
    /\ db_log # <<>>
    /\ db_log[1].op = "import_vector_file"
    /\ db_log[1].ret
    /\ db_log[1].io.file.crs = NoCrs
    /\ db_log[1].io.file.features = MaxFeatures
    /\ db_log[1].existed

\* C24: every item of a folder scan has a CRS code string as its
\* coordinate reference, and it is "EPSG:4326" whenever no CRS was
\* detected: detection raised, the file has no CRS, or the extension is
\* one for which no detection is attempted.
C24_Claim ==
    \A r \in 1..Len(scanned_data) :
        /\ scanned_data[r].srs \in {"EPSG:4326", "EPSG:3857"}
        /\ (\/ scanned_data[r].file.found \in {"raised", NoCrs}
            \/ scanned_data[r].file.ext \notin DetectedExtensions)
              => scanned_data[r].srs = "EPSG:4326"

\* C25: get_workspaces, get_datastores, get_layers and get_styles always
\* return a sequence: the one-element list of the inner object when the
\* answer is 200 and its inner value is a single object, the inner list
\* unchanged when it is a list, and the empty list for another status, an
\* exception, a missing or empty wrapper and any other inner value.
C25_Listing ==
    \A k \in 1..Len(gs_log) :
        LET c == gs_log[k]
            keys == ListingKeys[c.op]
            wrapped == /\ ~c.response.exc
                       /\ c.response.status_code = 200
                       /\ c.body.kind = "dict"
                       /\ c.body.key = keys.outer
                       /\ c.body.wrapper.kind = "dict"
                       /\ c.body.wrapper.key = keys.inner
            v == c.body.wrapper.value
        IN /\ c.ret \in Seq(JsonObjects)
           /\ (wrapped /\ v.kind = "dict") => (Len(c.ret) = 1 /\ c.ret[1] = v.items[1])
           /\ (wrapped /\ v.kind = "list") => c.ret = v.items
           /\ ~(wrapped /\ v.kind \in {"dict", "list"}) => c.ret = <<>>

C25_Witness ==
    /\ gs_log # <<>>
    /\ gs_log[1].op = "get_styles"
    /\ gs_log[1].body.wrapper.value.kind = "dict"
    /\ gs_log[1].ret = <<"y">>

\* C30: the progress callback receives floor(100*i/n) for the 0-based
\* index i of each item, emitted before the item is imported, and a final
\* 100 after the last item; every value lies in 0..100 and the values
\* never decrease.
C30_Claim ==
    /\ \A j \in 1..Len(calls) :
          calls[j].op = "progress"
             => /\ calls[j].val \in 0..100
                /\ calls[j].item >= 1
                      => calls[j].val = (100 * (calls[j].item - 1)) \div total_items
                /\ \A h \in 1..(j - 1) :
                      calls[h].op = "progress" => calls[h].val <= calls[j].val
                /\ \A h \in 1..(j - 1) :
                      calls[h].op \in {"import_vector_file", "import_raster_file",
                                       "publish_layer_from_table"}
                          => (calls[j].item = 0 \/ calls[h].item < calls[j].item)
    /\ (pc = "final_status" /\ progress_callback)
          => (calls[Len(calls)].op = "progress" /\ calls[Len(calls)].val = 100)

\* C29: the import stage dispatches on the item kind: for a VECTOR item
\* import_vector_file is called and its result is the result of the
\* stage, for a RASTER item import_raster_file is called and the stage
\* fails, and an EXISTING_SPATIAL_TABLE item succeeds without any call.
C29_Claim ==
    \A k \in 1..total_items :
        LET succeeded == \/ (pc = "publish" /\ i = k)
                         \/ \E j \in 1..Len(calls) :
                               calls[j].op = "publish_layer_from_table" /\ calls[j].item = k
            failed == \E j \in 1..Len(error_log) :
                          error_log[j] = [item |-> k, reason |-> "import_failed"]
            called(op, res) == \E j \in 1..Len(calls) :
                                   /\ calls[j].op = op
                                   /\ calls[j].item = k
                                   /\ calls[j].res = res
            any_call == \E j \in 1..Len(calls) :
                            /\ calls[j].op \in {"import_vector_file", "import_raster_file"}
                            /\ calls[j].item = k
        IN /\ (succeeded /\ data_items[k].type = VECTOR) => called("import_vector_file", "ok")
           /\ (failed /\ data_items[k].type = VECTOR) => called("import_vector_file", "fail")
           /\ data_items[k].type = RASTER
                 => (~succeeded /\ (failed => called("import_raster_file", "fail")))
           /\ (data_items[k].type = EXISTING_SPATIAL_TABLE /\ k < i)
                 => (~any_call /\ ~failed)

C28_SuccessCount ==
    /\ success_count = Cardinality({j \in 1..Len(calls) :
                                       /\ calls[j].op = "publish_layer_from_table"
                                       /\ calls[j].res = "ok"})
    /\ (calls # <<>> /\ calls[Len(calls)].op = "publish_layer_from_table")
          => LET k == calls[Len(calls)].item
             IN /\ data_items[k].type \in {VECTOR, EXISTING_SPATIAL_TABLE}
                /\ data_items[k].type = VECTOR
                      => calls[Len(calls) - 1] = Ev("import_vector_file", k, 0, "ok")
                /\ calls[Len(calls)].res = "fail"
                      => /\ ~PublishedOk(k)
                         /\ k \in FailedItems
                         /\ error_count >= 1
                         /\ \E e \in 1..Len(error_log) :
                               error_log[e] = [item |-> k, reason |-> "publish_failed"]
    /\ \A h \in 1..(Len(calls) - 1) :
          calls[h].op = "publish_layer_from_table" => calls[h].item # calls[Len(calls)].item

C28_Witness ==
    /\ Len(data_items) = 3
    /\ \E j \in 1..Len(calls) : calls[j] = Ev("import_vector_file", 1, 0, "ok")
    /\ \E j \in 1..Len(calls) : calls[j] = Ev("publish_layer_from_table", 1, 0, "fail")
    /\ PublishedOk(2)
    /\ PublishedOk(3)
    /\ success_count = 2
    /\ error_count = 1
    /\ Returned

\* C34: the two counters together count the items the loop has taken up: in
\* the loop, with k items behind it and item k + 1 at hand or next, their
\* sum is k; when the loop has run to its end the sum is the length of the
\* list, so that every item taken up is in exactly one of the two counts;
\* no failure is recorded without being counted.
C34_CounterSum ==
    /\ success_count + error_count = Cardinality({k \in 1..total_items : Visited(k)})
    /\ pc \in {"loop", "status", "import", "publish"}
          => success_count + error_count = i - 1
    /\ (LoopCompleted /\ pc \in {"loop", "final_status", "return"})
          => success_count + error_count = total_items
    /\ Len(error_log) <= error_count

C34_Witness ==
    /\ total_items = 3
    /\ LoopCompleted
    /\ pc = "return"
    /\ success_count = 1
    /\ error_count = 2
    /\ \E e \in 1..Len(error_log) : error_log[e].reason = "exception"

\* C37: a run over the empty list that passed setup makes no call for any
\* item (so no progress value is divided by the length 0), emits progress
\* 100 once and the final status line once, and returns the flag false
\* with the message "0/0".
C37_Claim ==
    (Returned /\ SetupPassed /\ data_items = <<>>)
        => /\ \A j \in 1..Len(calls) : calls[j].item = 0
           /\ progress_callback
                 => Cardinality({j \in 1..Len(calls) : calls[j].op = "progress"}) = 1
           /\ status_callback
                 => /\ Cardinality({j \in 1..Len(calls) : calls[j].op = "status"}) = 1
                    /\ status_line = <<0, 0>>
           /\ result = Ret(FALSE, "summary", "summary", <<0, 0>>)

\* C38: an item whose type is none of the three known ones never reaches
\* the publish stage, and no call made is a gateway call for it; once the
\* loop is through with it, it has one failure record (none only when it
\* lacks its name), an import failure unless a callback raised for it; the
\* counters hold one failure for each such item and no success.
C38_UnknownKind ==
    LET unknown == {k \in 1..total_items : data_items[k].type = UNKNOWN_TYPE}
        visited == {k \in 1..total_items : Visited(k)}
    IN /\ (pc = "publish" /\ i \in 1..total_items) => i \notin unknown
       /\ (calls # <<>> /\ calls[Len(calls)].item \in unknown)
             => calls[Len(calls)].op \in {"progress", "status"}
       /\ \A k \in unknown \cap visited :
             LET records == {e \in 1..Len(error_log) : error_log[e].item = k}
             IN /\ Cardinality(records) <= 1
                /\ data_items[k].has_new_name => records # {}
                /\ \A e \in records :
                      \/ error_log[e].reason = "import_failed"
                      \/ \E j \in 1..Len(calls) :
                            calls[j].item = k /\ calls[j].res = "raise"
       /\ error_count >= Cardinality(unknown \cap visited)
       /\ success_count <= Cardinality(visited \ unknown)
       /\ success_count + error_count = Cardinality(visited)

C38_Witness ==
    /\ total_items = 3
    /\ data_items[2].type = UNKNOWN_TYPE
    /\ PublishedOk(1)
    /\ PublishedOk(3)
    /\ error_log = <<[item |-> 2, reason |-> "import_failed"]>>
    /\ success_count = 2
    /\ error_count = 1
    /\ Returned

\* C39: as long as every gateway call and every callback comes back, by
\* returning or by raising, a run over a finite list ends: it returns a
\* result to its caller, and at no time has it made more than one import
\* call or more than one publish call for an item.
C39_Terminates ==
    /\ <>Returned
    /\ [](\A k \in 1..total_items :
            /\ Cardinality({j \in 1..Len(calls) :
                                /\ calls[j].item = k
                                /\ calls[j].op \in {"import_vector_file",
                                                     "import_raster_file"}}) <= 1
            /\ Cardinality({j \in 1..Len(calls) :
                                /\ calls[j].item = k
                                /\ calls[j].op = "publish_layer_from_table"}) <= 1)

C39_Witness ==
    /\ total_items = MaxLiveItems
    /\ pc = "finished"
    /\ result.msg = "summary"
    /\ \A k \in 1..total_items :
          /\ \E j \in 1..Len(calls) : calls[j] = Ev("import_vector_file", k, 0, "ok")
          /\ \E j \in 1..Len(calls) : calls[j].op = "publish_layer_from_table"
                                        /\ calls[j].item = k

\* C31: the publish request of an item carries the item's new_name as the
\* name of the layer and as the name of the table, and the item's srs as
\* the SRS, and the layer it makes has the item's style.
C31_Claim ==
    gs_log # <<>>
        => /\ gs_log[1].request.name = data_items[1].new_name
           /\ gs_log[1].request.nativeName = data_items[1].new_name
           /\ gs_log[1].request.srs = data_items[1].srs
           /\ gs_log[1].ret => gs_log[1].layer_style = data_items[1].style

\* C35: the SRS of an item's publish request is the target CRS its import
\* was called with.
C35_Claim ==
    (gs_log # <<>> /\ db_log # <<>>)
        => gs_log[1].request.srs = db_log[1].target_crs

\* C32: whenever import_vector_file reports success for a table, the table
\* carries the spatial index named after it, idx_<table>_geom.
C32_Claim ==
    (/\ db_log # <<>>
     /\ db_log[1].op = "import_vector_file"
     /\ db_log[1].ret)
        => [name |-> db_log[1].table, on |-> db_log[1].table] \in indexes

\* C33: the clean name import_vector_file gives a column is the name
\* normalize_name gives for the same column name.
C33_Claim == pc = "cleaned" => name_log[2] = normalize_name(name_log[1])

\* C36: every method of the database gateway returns with the connection
\* outside any transaction, neither open nor aborted, so no call finds the
\* transaction aborted by a call before it.
C36_Claim ==
    db_log # <<>>
        => /\ tx \notin {"open", "aborted"}
           /\ db_log[1].tx_before # "aborted"
====
